---- MODULE Spec2Model ----
(***************************************************************************)
(* Model of the iNES cartridge loader of src/src/rom.rs: the RomHeader     *)
(* accessors (mirroring, has_battery_backed_ram, has_trainer, mapper_id)   *)
(* and Rom::load.                                                          *)
(*                                                                         *)
(* Rust indexes from 0, TLA+ sequences from 1: buffer[i] of the source is  *)
(* buffer[i + 1] here, and the half-open range buffer[a..b] is             *)
(* SubSeq(buffer, a + 1, b).                                               *)
(***************************************************************************)
EXTENDS Integers, Sequences, FiniteSets, TLC

VARIABLES
    pc,       \* "start" | "done" (Rom::load) ; "header" | "called" (accessors)
    disk,     \* the file at Path: how the I/O goes and the image it holds
    result,   \* what Rom::load returned (Ok / Err) or that it panicked
    stdout,   \* the lines println! wrote
    header,   \* the RomHeader an accessor is called on
    out       \* the accessor called and the value it returned

vars == <<pc, disk, result, stdout, header, out>>

----------------------------------------------------------------------------
\* Constants of the source.

PRG_ROM_PAGE_SIZE == 16384
CHR_ROM_PAGE_SIZE == 8192
INES_HEADER_SIZE == 16
TRAINER_SIZE == 512
NES_SIGNATURE == <<78, 69, 83, 26>>

\* Bounds of the model.
MaxPrgPages == 2
MaxChrPages == 1
ExtraLen == 600

\* The path handed to Rom::load.
Path == "game.nes"

Byte == 0..255

----------------------------------------------------------------------------
\* u8 bit operations, bit by bit.

RECURSIVE BitAnd(_, _)
BitAnd(a, b) ==
    IF a = 0 \/ b = 0 THEN 0
    ELSE (a % 2) * (b % 2) + 2 * BitAnd(a \div 2, b \div 2)

RECURSIVE BitOr(_, _)
BitOr(a, b) ==
    IF a = 0 THEN b
    ELSE IF b = 0 THEN a
    ELSE (IF a % 2 = 1 \/ b % 2 = 1 THEN 1 ELSE 0) + 2 * BitOr(a \div 2, b \div 2)

Shr(a, n) == a \div (2 ^ n)

----------------------------------------------------------------------------
\* RomHeader accessors.

\* Variant: bit 0 tested before bit 3.
MirroringVerticalFirst(h) ==
    LET four_screen == BitAnd(h.control_byte1, 8) # 0
        vertical == BitAnd(h.control_byte1, 1) # 0
    IN  IF vertical THEN "Vertical"
        ELSE IF four_screen THEN "FourScreen"
        ELSE "Horizontal"

\* mirroring(): bit 3 (four-screen) overrides bit 0.
Mirroring(h) ==
    LET four_screen == BitAnd(h.control_byte1, 8) # 0
        vertical == BitAnd(h.control_byte1, 1) # 0
    IN  IF four_screen THEN "FourScreen"
        ELSE IF vertical THEN "Vertical"
        ELSE "Horizontal"

HasBatteryBackedRam(h) == BitAnd(h.control_byte1, 2) # 0

HasTrainer(h) == BitAnd(h.control_byte1, 4) # 0

\* Variant: the low nibble of control_byte1 taken instead of its high nibble.
MapperIdLowNibbleOfCb1(h) ==
    BitOr(BitAnd(h.control_byte2, 240), BitAnd(h.control_byte1, 15))

\* mapper_id(): (control_byte2 & 0xF0) | (control_byte1 >> 4)
MapperId(h) == BitOr(BitAnd(h.control_byte2, 240), Shr(h.control_byte1, 4))

----------------------------------------------------------------------------
\* Values shared by both specifications.

NoHeader ==
    [signature |-> <<0, 0, 0, 0>>, num_prg_pages |-> 0, num_chr_pages |-> 0,
     control_byte1 |-> 0, control_byte2 |-> 0,
     reserved |-> <<0, 0, 0, 0, 0, 0, 0, 0>>]

NoOut == [fn |-> "none"]
NoResult == [kind |-> "None"]
NoDisk == [io |-> "ok", image |-> [kind |-> "zeros", len |-> 0]]

----------------------------------------------------------------------------
\* The accessors, called on every header the two control bytes can make.

Headers ==
    {[NoHeader EXCEPT !.signature = NES_SIGNATURE,
                      !.control_byte1 = cb1, !.control_byte2 = cb2] :
        cb1 \in Byte, cb2 \in Byte}

InitHeader ==
    /\ pc = "header"
    /\ header \in Headers
    /\ out = NoOut
    /\ disk = NoDisk
    /\ result = NoResult
    /\ stdout = <<>>

CallMirroring ==
    /\ pc = "header"
    /\ out' = [fn |-> "mirroring", value |-> Mirroring(header)]
    /\ pc' = "called"
    /\ UNCHANGED <<disk, result, stdout, header>>

CallHasBatteryBackedRam ==
    /\ pc = "header"
    /\ out' = [fn |-> "has_battery_backed_ram", value |-> HasBatteryBackedRam(header)]
    /\ pc' = "called"
    /\ UNCHANGED <<disk, result, stdout, header>>

CallHasTrainer ==
    /\ pc = "header"
    /\ out' = [fn |-> "has_trainer", value |-> HasTrainer(header)]
    /\ pc' = "called"
    /\ UNCHANGED <<disk, result, stdout, header>>

CallMapperId ==
    /\ pc = "header"
    /\ out' = [fn |-> "mapper_id", value |-> MapperId(header)]
    /\ pc' = "called"
    /\ UNCHANGED <<disk, result, stdout, header>>

NextHeader ==
    \/ CallMirroring
    \/ CallHasBatteryBackedRam
    \/ CallHasTrainer
    \/ CallMapperId

SpecHeader == InitHeader /\ [][NextHeader]_vars

----------------------------------------------------------------------------
\* The files Rom::load is run on.

\* A file is described by how it is made: a header (signature, page counts,
\* control bytes) followed by filler up to a length, a run of zero bytes, or
\* the bytes themselves.
\* ReadToEnd gives the bytes read_to_end puts in the buffer.

\* The filler byte at 0-based offset i: no two offsets 512, 8192 or 16384
\* apart hold the same byte.
Fill(i) == (1 + i + 3 * (i \div 256)) % 256

Signatures ==
    {NES_SIGNATURE, <<0, 0, 0, 0>>}
        \cup {[NES_SIGNATURE EXCEPT ![k] = (@ + 1) % 256] : k \in 1..4}

PrgPageCounts == 0..MaxPrgPages \cup {255}
ChrPageCounts == 0..MaxChrPages \cup {255}
ControlByte1s == {0, 4, 25, 246}
ControlByte2s == {32}

\* The longest file built.
MaxFileLen ==
    INES_HEADER_SIZE + TRAINER_SIZE + MaxPrgPages * PRG_ROM_PAGE_SIZE
        + MaxChrPages * CHR_ROM_PAGE_SIZE + ExtraLen

\* The total the header (p, c, cb1) declares.
Declared(p, c, cb1) ==
    INES_HEADER_SIZE + TRAINER_SIZE * ((cb1 \div 4) % 2)
        + p * PRG_ROM_PAGE_SIZE + c * CHR_ROM_PAGE_SIZE

\* Lengths around the header size and around the declared total; a file with
\* a wrong signature is built at the former and within a byte of the latter.
FileLengths(sig, p, c, cb1) ==
    LET e == Declared(p, c, cb1)
    IN  {n \in {0, 10, 15, 16, 17, e - c * CHR_ROM_PAGE_SIZE, e - 1, e, e + 1,
                e + ExtraLen} :
            /\ 0 <= n /\ n <= MaxFileLen
            /\ sig = NES_SIGNATURE \/ n <= 17 \/ n \in {e - 1, e, e + 1}}

FileBytes(sig, p, c, cb1, cb2, n) ==
    LET head == sig \o <<p, c, cb1, cb2>>
    IN  IF n <= 8 THEN SubSeq(head, 1, n)
        ELSE head \o [i \in 1..(n - 8) |-> Fill(i + 7)]

ZeroBytes(n) == [i \in 1..n |-> 0]

RomImages ==
    UNION {{[kind |-> "rom", sig |-> sig, p |-> p, c |-> c, cb1 |-> cb1,
             cb2 |-> cb2, len |-> n] :
                cb2 \in ControlByte2s, n \in FileLengths(sig, p, c, cb1)} :
           sig \in Signatures, p \in PrgPageCounts, c \in ChrPageCounts,
           cb1 \in ControlByte1s}

ZeroImages == {[kind |-> "zeros", len |-> n] : n \in {10, 16}}

\* A file holding exactly the given bytes.
RawFile(bytes) == [io |-> "ok", image |-> [kind |-> "raw", bytes |-> bytes]]

ReadToEnd(image) ==
    IF image.kind = "raw" THEN image.bytes
    ELSE IF image.kind = "zeros" THEN ZeroBytes(image.len)
    ELSE FileBytes(image.sig, image.p, image.c, image.cb1, image.cb2, image.len)


----------------------------------------------------------------------------
\* Rom::load.  A step of the source that can panic (an index or a range out of
\* the buffer, an arithmetic overflow) yields a value that says so, and load
\* then ends as a panic instead of returning.

\* usize arithmetic.  UsizeMax is the largest value every target of the program
\* can hold in a usize (2^31 - 1, isize::MAX of a 32-bit target); a result
\* above it is an overflow, written Overflow, and stays one.
UsizeMax == 2147483647
Overflow == -1

UsizeMul(a, b) ==
    IF a < 0 \/ b < 0 THEN Overflow
    ELSE IF b # 0 /\ a > UsizeMax \div b THEN Overflow
    ELSE a * b

UsizeAdd(a, b) ==
    IF a < 0 \/ b < 0 THEN Overflow
    ELSE IF a > UsizeMax - b THEN Overflow
    ELSE a + b

\* buffer[i]
Index(buffer, i) ==
    IF 0 <= i /\ i < Len(buffer)
    THEN [ok |-> TRUE, v |-> buffer[i + 1]]
    ELSE [ok |-> FALSE, v |-> 0]

\* buffer[a..b].to_vec()
Slice(buffer, a, b) ==
    IF 0 <= a /\ a <= b /\ b <= Len(buffer)
    THEN [ok |-> TRUE, v |-> SubSeq(buffer, a + 1, b)]
    ELSE [ok |-> FALSE, v |-> <<>>]

\* What load hands back: Ok(rom), Err(message) or a panic.
Ok(rom) == [kind |-> "Ok", rom |-> rom]
Err(e) == [kind |-> "Err", err |-> e]
Panic == [kind |-> "Panic"]
Pass == [kind |-> "Pass"]

\* The error strings: which format string, the path, and the values
\* formatted into it after the path, in order.
Message(error, path, values) == [error |-> error, path |-> path, values |-> values]

\* Variant: <= in place of <.
HeaderSizeCheckInclusive(path, buffer) ==
    IF Len(buffer) <= INES_HEADER_SIZE
    THEN Err(Message("TooSmall", path, <<Len(buffer)>>))
    ELSE Pass

\* "File '{}' is too small to be a valid iNES ROM ({} bytes)"
HeaderSizeCheck(path, buffer) ==
    IF Len(buffer) < INES_HEADER_SIZE
    THEN Err(Message("TooSmall", path, <<Len(buffer)>>))
    ELSE Pass

\* The header, copied field by field.
ParseHeader(buffer) ==
    LET b(i) == Index(buffer, i)
        r == Slice(buffer, 8, INES_HEADER_SIZE)
    IN  IF (\E i \in 0..7 : ~b(i).ok) \/ ~r.ok THEN Panic
        ELSE IF Len(r.v) # 8
        THEN Err(Message("ReservedBytes", "", <<>>))
        ELSE [kind |-> "Parsed",
              header |-> [signature |-> <<b(0).v, b(1).v, b(2).v, b(3).v>>,
                          num_prg_pages |-> b(4).v,
                          num_chr_pages |-> b(5).v,
                          control_byte1 |-> b(6).v,
                          control_byte2 |-> b(7).v,
                          reserved |-> r.v]]

\* Variant: only 'N','E','S' compared.
SignatureCheckThreeBytes(path, h) ==
    IF SubSeq(h.signature, 1, 3) # SubSeq(NES_SIGNATURE, 1, 3)
    THEN Err(Message("BadSignature", path, <<>>))
    ELSE Pass

\* Variant: the bytes found are formatted into the message.
SignatureCheckReportsBytes(path, h) ==
    IF h.signature # NES_SIGNATURE
    THEN Err(Message("BadSignature", path, h.signature))
    ELSE Pass

\* "Invalid iNES signature found in '{}'"
SignatureCheck(path, h) ==
    IF h.signature # NES_SIGNATURE
    THEN Err(Message("BadSignature", path, <<>>))
    ELSE Pass

\* Sizes and offsets.
TrainerOffset(h) ==
    LET has_trainer == BitAnd(h.control_byte1, 4) # 0
    IN  IF has_trainer THEN TRAINER_SIZE ELSE 0

\* Variant: the CHR page size used for PRG pages.
PrgRomSizeChrPages(h) == UsizeMul(h.num_prg_pages, CHR_ROM_PAGE_SIZE)

PrgRomSize(h) == UsizeMul(h.num_prg_pages, PRG_ROM_PAGE_SIZE)

ChrRomSize(h) == UsizeMul(h.num_chr_pages, CHR_ROM_PAGE_SIZE)

\* Variant: the trainer not skipped.
PrgRomStartNoTrainer(h) == INES_HEADER_SIZE

PrgRomStart(h) == UsizeAdd(INES_HEADER_SIZE, TrainerOffset(h))

ChrRomStart(h) == UsizeAdd(PrgRomStart(h), PrgRomSize(h))

\* Variant: the trainer not counted.
ExpectedTotalSizeNoTrainer(h) ==
    UsizeAdd(UsizeAdd(INES_HEADER_SIZE, PrgRomSize(h)), ChrRomSize(h))

ExpectedTotalSize(h) ==
    UsizeAdd(UsizeAdd(UsizeAdd(INES_HEADER_SIZE, TrainerOffset(h)), PrgRomSize(h)),
             ChrRomSize(h))

\* Variant: no check of the length against the expected total.
FileSizeCheckOff(path, buffer, expected_total_size) == Pass

\* "File '{}' size ({}) does not match expected size ({}) based on header."
FileSizeCheck(path, buffer, expected_total_size) ==
    IF Len(buffer) < expected_total_size
    THEN Err(Message("TruncatedFile", path, <<Len(buffer), expected_total_size>>))
    ELSE Pass

\* "Warning: File '{}' size ({}) is larger than expected size ({}). Extra data ignored."
SizeWarning(path, buffer, expected_total_size) ==
    IF Len(buffer) > expected_total_size
    THEN <<Message("LargerThanExpected", path, <<Len(buffer), expected_total_size>>)>>
    ELSE <<>>

\* Variant: chr_rom taken up to the end of the buffer.
ChrRomSliceToEnd(buffer, h) == Slice(buffer, ChrRomStart(h), Len(buffer))

PrgRomSlice(buffer, h) ==
    Slice(buffer, PrgRomStart(h), UsizeAdd(PrgRomStart(h), PrgRomSize(h)))

ChrRomSlice(buffer, h) ==
    Slice(buffer, ChrRomStart(h), UsizeAdd(ChrRomStart(h), ChrRomSize(h)))

Return(r) == [result |-> r, stdout |-> <<>>]

\* Lines 153-188: the sizes, the length check, the warning, the two slices.
ExtractRom(path, buffer, h) ==
    LET expected_total_size == ExpectedTotalSize(h)
        sized == FileSizeCheck(path, buffer, expected_total_size)
        warned == SizeWarning(path, buffer, expected_total_size)
        prg_rom == PrgRomSlice(buffer, h)
        chr_rom == ChrRomSlice(buffer, h)
    IN  IF PrgRomSize(h) < 0 \/ ChrRomSize(h) < 0 \/ PrgRomStart(h) < 0
           \/ ChrRomStart(h) < 0 \/ expected_total_size < 0
        THEN Return(Panic)
        ELSE IF sized.kind = "Err" THEN Return(sized)
        ELSE IF ~prg_rom.ok \/ ~chr_rom.ok
        THEN [result |-> Panic, stdout |-> warned]
        ELSE [result |-> Ok([header |-> h, prg_rom |-> prg_rom.v,
                            chr_rom |-> chr_rom.v]),
              stdout |-> warned]

\* Rom::load(path), with d the file at path.
RomLoad(path, d) ==
    \* "Failed to open file '{}': {}", "Failed to read file '{}': {}"; the
    \* cause the system gives is left out of the message.
    IF d.io = "open_fails" THEN Return(Err(Message("OpenFailed", path, <<>>)))
    ELSE IF d.io = "read_fails" THEN Return(Err(Message("ReadFailed", path, <<>>)))
    ELSE LET buffer == ReadToEnd(d.image)
             sized == HeaderSizeCheck(path, buffer)
             parsed == ParseHeader(buffer)
         IN  IF sized.kind = "Err" THEN Return(sized)
             ELSE IF parsed.kind # "Parsed" THEN Return(parsed)
             ELSE LET signed == SignatureCheck(path, parsed.header)
                  IN  IF signed.kind = "Err" THEN Return(signed)
                      ELSE ExtractRom(path, buffer, parsed.header)

Init ==
    /\ pc = "start"
    /\ \/ \E image \in RomImages \cup ZeroImages : disk = [io |-> "ok", image |-> image]
       \/ \E io \in {"open_fails", "read_fails"} :
             disk = [io |-> io, image |-> [kind |-> "zeros", len |-> 0]]
    /\ result = NoResult
    /\ stdout = <<>>
    /\ header = NoHeader
    /\ out = NoOut

Load ==
    /\ pc = "start"
    /\ LET r == RomLoad(Path, disk)
       IN  /\ result' = r.result
           /\ stdout' = stdout \o r.stdout
    /\ pc' = "done"
    /\ UNCHANGED <<disk, header, out>>

Next == Load

Spec == Init /\ [][Next]_vars


----------------------------------------------------------------------------
\* What the properties below say about a file, read off its bytes b alone.

Bytes == ReadToEnd(disk.image)
Loaded == pc = "done" /\ disk.io = "ok"
Bit(n, k) == (n \div (2 ^ k)) % 2

HasMagic(b) ==
    /\ Len(b) >= 4
    /\ b[1] = 78 /\ b[2] = 69 /\ b[3] = 83 /\ b[4] = 26

\* Of a file of at least 16 bytes.
TrainerBit(b) == Bit(b[7], 2)
DeclaredPrgSize(b) == b[5] * 16384
DeclaredChrSize(b) == b[6] * 8192
DeclaredPrgStart(b) == 16 + 512 * TrainerBit(b)
DeclaredChrStart(b) == DeclaredPrgStart(b) + DeclaredPrgSize(b)
DeclaredTotal(b) == DeclaredChrStart(b) + DeclaredChrSize(b)

WellFormed(b) == Len(b) >= 16 /\ HasMagic(b) /\ Len(b) >= DeclaredTotal(b)

IsErr(r, error) == r.kind = "Err" /\ r.err.error = error

----------------------------------------------------------------------------
\* C1: whenever load succeeds, prg_rom is num_prg_pages * 16384 bytes long and
\* chr_rom is num_chr_pages * 8192 bytes long, the page counts being input
\* bytes 4 and 5; and on every well-formed input (valid signature, at least
\* the declared total long, trainer or not) load succeeds.
C1_SectionLengths ==
    Loaded =>
        LET b == Bytes
        IN  /\ result.kind = "Ok" =>
                  /\ Len(b) >= 16
                  /\ Len(result.rom.prg_rom) = b[5] * 16384
                  /\ Len(result.rom.chr_rom) = b[6] * 8192
                  /\ result.rom.header.num_prg_pages = b[5]
                  /\ result.rom.header.num_chr_pages = b[6]
            /\ WellFormed(b) => result.kind = "Ok"

C1_Witness ==
    /\ Loaded /\ result.kind = "Ok"
    /\ LET b == Bytes
       IN  /\ WellFormed(b)
           /\ b[5] = 1 /\ b[6] = 1 /\ TrainerBit(b) = 1
    /\ Len(result.rom.prg_rom) = 16384 /\ Len(result.rom.chr_rom) = 8192

\* C2: an input of at least 16 bytes whose first four bytes are not
\* 'N','E','S',0x1A fails with the bad-signature error, and no Rom is built,
\* whatever the rest of the input is.
C2_BadSignatureRejected ==
    Loaded =>
        LET b == Bytes
        IN  (Len(b) >= 16 /\ ~HasMagic(b)) => IsErr(result, "BadSignature")

C2_Witness ==
    /\ Loaded /\ IsErr(result, "BadSignature")
    /\ LET b == Bytes
       IN  /\ Len(b) >= 16
           /\ b[1] = 78 /\ b[2] = 69 /\ b[3] = 83 /\ b[4] = 27
           /\ b[5] = 1 /\ Len(b) = DeclaredTotal(b)

\* C3: an input with a valid signature that is at least 16 bytes long but
\* shorter than the declared total fails with the truncated-file error, which
\* reports the actual length and the declared total; no Rom is returned.
C3_TruncatedRejected ==
    Loaded =>
        LET b == Bytes
        IN  (Len(b) >= 16 /\ HasMagic(b) /\ Len(b) < DeclaredTotal(b)) =>
                /\ IsErr(result, "TruncatedFile")
                /\ result.err.values = <<Len(b), DeclaredTotal(b)>>

C3_Witness ==
    /\ Loaded /\ IsErr(result, "TruncatedFile")
    /\ LET b == Bytes
       IN  /\ Len(b) >= 16 /\ HasMagic(b)
           /\ b[5] = 1 /\ TrainerBit(b) = 1 /\ Len(b) = DeclaredTotal(b) - 1
           /\ result.err.values = <<Len(b), DeclaredTotal(b)>>

\* C4: a valid exact-length input followed by any non-empty extra bytes loads
\* to the same header, prg_rom and chr_rom as the exact-length input alone;
\* the warning is written exactly when the input is longer than the declared
\* total.
C4_TrailingBytesIgnored ==
    Loaded =>
        LET b == Bytes
        IN  /\ WellFormed(b) =>
                /\ result.kind = "Ok"
                /\ Len(b) > DeclaredTotal(b) =>
                      LET alone == RomLoad(Path, RawFile(SubSeq(b, 1, DeclaredTotal(b))))
                      IN  /\ alone.result.kind = "Ok"
                          /\ alone.result.rom.header = result.rom.header
                          /\ alone.result.rom.prg_rom = result.rom.prg_rom
                          /\ alone.result.rom.chr_rom = result.rom.chr_rom
                          /\ alone.stdout = <<>>
                          /\ Len(stdout) = 1
                          /\ stdout[1].error = "LargerThanExpected"
                /\ Len(b) = DeclaredTotal(b) => stdout = <<>>
            /\ stdout # <<>> => (WellFormed(b) /\ Len(b) > DeclaredTotal(b))

C4_Witness ==
    /\ Loaded /\ result.kind = "Ok" /\ Len(stdout) = 1
    /\ LET b == Bytes
       IN  /\ WellFormed(b)
           /\ b[5] = 1 /\ b[6] = 1
           /\ Len(b) = DeclaredTotal(b) + ExtraLen

\* C5: on success prg_rom is the input at [prg_start, prg_start + prg_size)
\* and chr_rom the input at [chr_start, chr_start + chr_size), with
\* prg_start = 16 + (512 if bit 2 of control_byte1 is set) and
\* chr_start = prg_start + prg_size; so with the trainer bit set prg_rom
\* starts 512 bytes later than for the same input with the bit clear.
C5_SectionContents ==
    (Loaded /\ result.kind = "Ok") =>
        LET b == Bytes
        IN  /\ Len(b) >= 16
            /\ result.rom.prg_rom =
                  SubSeq(b, DeclaredPrgStart(b) + 1, DeclaredPrgStart(b) + DeclaredPrgSize(b))
            /\ result.rom.chr_rom =
                  SubSeq(b, DeclaredChrStart(b) + 1, DeclaredChrStart(b) + DeclaredChrSize(b))
            /\ TrainerBit(b) = 1 =>
                  LET clear == RomLoad(Path, RawFile([b EXCEPT ![7] = @ - 4]))
                  IN  /\ clear.result.kind = "Ok"
                      /\ clear.result.rom.prg_rom =
                            SubSeq(b, 16 + 1, 16 + DeclaredPrgSize(b))
                      /\ result.rom.prg_rom =
                            SubSeq(b, 16 + 512 + 1, 16 + 512 + DeclaredPrgSize(b))

C5_Witness ==
    /\ Loaded /\ result.kind = "Ok"
    /\ LET b == Bytes
       IN  /\ TrainerBit(b) = 1 /\ b[5] = 1 /\ b[6] = 1
           /\ result.rom.prg_rom[1] = b[529]
           /\ result.rom.prg_rom[1] # b[17]

\* C6: the length check comes before the signature check: an input shorter
\* than 16 bytes fails with the too-small error, which reports the actual
\* length, even when it begins with the magic; 16 zero bytes pass the length
\* check and fail with the bad-signature error.
C6_LengthCheckFirst ==
    Loaded =>
        LET b == Bytes
        IN  /\ Len(b) < 16 =>
                  /\ IsErr(result, "TooSmall")
                  /\ result.err.values = <<Len(b)>>
            /\ Len(b) >= 16 => ~IsErr(result, "TooSmall")
            /\ b = ZeroBytes(16) => IsErr(result, "BadSignature")

C6_Witness ==
    /\ Loaded /\ IsErr(result, "BadSignature")
    /\ Bytes = ZeroBytes(16)

C6_WitnessShort ==
    /\ Loaded /\ IsErr(result, "TooSmall") /\ result.err.values = <<10>>
    /\ LET b == Bytes
       IN  Len(b) = 10 /\ HasMagic(b)

\* C7: load never panics, whatever the input: no index or range leaves the
\* buffer, the size arithmetic does not overflow for page counts up to 255,
\* and every malformed input ends in an Err value.
C7_NeverPanics ==
    /\ result.kind # "Panic"
    /\ pc = "done" => result.kind \in {"Ok", "Err"}
    /\ (pc = "done" /\ disk.io # "ok") => result.kind = "Err"
    /\ Loaded =>
          LET b == Bytes
          IN  /\ ~WellFormed(b) => result.kind = "Err"
              /\ result.kind = "Ok" => DeclaredTotal(b) <= Len(b)

C7_Witness ==
    /\ Loaded /\ IsErr(result, "TruncatedFile")
    /\ result.err.values[2] = 6267408
    /\ LET b == Bytes
       IN  /\ Len(b) >= 16 /\ HasMagic(b)
           /\ b[5] = 255 /\ b[6] = 255 /\ TrainerBit(b) = 1

\* C8, as stated: the bad-signature error reports the four signature bytes
\* found in the input.
C8_ReportsSignatureBytes ==
    (Loaded /\ IsErr(result, "BadSignature")) =>
        result.err.values = SubSeq(Bytes, 1, 4)

\* C8, amended: the bad-signature error reports the path alone; none of the
\* bytes found in the input is part of it.
C8_ReportsPathOnly ==
    (Loaded /\ IsErr(result, "BadSignature")) =>
        /\ result.err.path = Path
        /\ result.err.values = <<>>

C8_Witness ==
    /\ Loaded /\ IsErr(result, "BadSignature")
    /\ result.err.values = <<>>
    /\ LET b == Bytes
       IN  Len(b) > 16 /\ b[1] = 79

\* C9: for every control_byte1 and control_byte2, mapper_id returns a byte
\* whose high nibble is the high nibble of control_byte2 and whose low nibble
\* is the high nibble of control_byte1 (0x10, 0x20 gives 0x21).
C9_MapperId ==
    (pc = "called" /\ out.fn = "mapper_id") =>
        /\ out.value \in Byte
        /\ out.value \div 16 = header.control_byte2 \div 16
        /\ out.value % 16 = header.control_byte1 \div 16
        /\ (header.control_byte1 = 16 /\ header.control_byte2 = 32) => out.value = 33

C9_Witness ==
    /\ pc = "called" /\ out.fn = "mapper_id"
    /\ header.control_byte1 = 16 /\ header.control_byte2 = 32
    /\ out.value = 33

\* C10: for every control_byte1, mirroring returns FourScreen when bit 3 is
\* set, whatever bit 0 is, otherwise Vertical when bit 0 is set, otherwise
\* Horizontal.
C10_Mirroring ==
    (pc = "called" /\ out.fn = "mirroring") =>
        out.value = IF Bit(header.control_byte1, 3) = 1 THEN "FourScreen"
                    ELSE IF Bit(header.control_byte1, 0) = 1 THEN "Vertical"
                    ELSE "Horizontal"

C10_Witness ==
    /\ pc = "called" /\ out.fn = "mirroring"
    /\ Bit(header.control_byte1, 3) = 1 /\ Bit(header.control_byte1, 0) = 1
    /\ out.value = "FourScreen"

====
